---- MODULE Spec2Model ----
(***************************************************************************)
(* OpenSkyClient (src/opensky-api.ts): the token lifecycle                 *)
(* (ensureValidToken, refreshToken, the token file) and the authenticated  *)
(* request with its single 401 refresh-and-retry                           *)
(* (makeAuthenticatedRequest).                                             *)
(*                                                                         *)
(* A string is a sequence of characters; a character is a natural number:  *)
(* WS is a whitespace character, any other number n stands for the text of *)
(* the n-th token the authentication server issued.  Absent stands for     *)
(* undefined / null, and for a token file that does not exist.             *)
(*                                                                         *)
(* One step of the model is one run-to-completion stretch of JavaScript:   *)
(* the code from one await to the next.  The arrival of an HTTP response   *)
(* and the continuation that consumes it form one step: the arrival itself *)
(* touches no state of the client.                                         *)
(***************************************************************************)
EXTENDS Integers, Sequences, FiniteSets, TLC

\* ---------------------------------------------------------------- bounds
NumCalls == 2      \* call slots (callers of the client)
MaxCalls == 3      \* calls started in one behaviour
MaxLen == 2        \* length of a value handed to saveTokenToFile on its own

\* ------------------------------------------------------- program constants
WS == 0            \* a whitespace character, what String.trim removes
Unauthorized == 401
OkLow == 200       \* Response.ok: 200..299
OkHigh == 299

Absent == <<-1>>
Calls == 1..NumCalls

Statuses == {200, 401, 404, 429, 500}      \* resource server answers
Bodies == {"b1", "b2"}                      \* JSON bodies of 2xx answers
AuthStatuses == {200, 403}                  \* authentication server answers
Kinds == {"execute", "ensure"}              \* makeAuthenticatedRequest / ensureValidToken
Urls == {"/states/all", "/flights/all"}     \* the url an endpoint method builds

\* The token file when the process starts: missing, empty, blank, a token
\* an earlier process saved, the same followed by a newline.
InitFiles == {Absent, <<>>, <<WS>>, <<1>>, <<1, WS>>}

VARIABLES
  clientId, clientSecret,   \* OpenSkyClient.clientId / clientSecret ("" = undefined)
  accessToken,              \* OpenSkyClient.accessToken
  file,                     \* content of the file at tokenFilePath
  pc, kind,                 \* per call: position, operation called
  token,                    \* per call: the local `token` of makeAuthenticatedRequest
  url,                      \* per call: the parameter `url` of makeAuthenticatedRequest
  result,                   \* per call: value returned or error thrown
  log,                      \* per call: its network events, in order
  pre,                      \* per call: accessToken and file when it started
  issued,                   \* tokens the authentication server has issued
  authCalls, got401, calls, \* this client instance: POSTs, a 401 seen, kinds of calls
  started,                  \* calls started in this behaviour
  invalidated,              \* tokens answered 401 for which refreshToken has run
  store,                    \* the last operation made on the token file on its own
  outcome,                  \* per caller: what the last endpoint method it called gave it
  posted                    \* POSTs made by the clients of getAccessToken, in all

vars == <<clientId, clientSecret, accessToken, file, pc, kind, token, result,
          log, pre, issued, authCalls, got401, calls, started, invalidated, url, store, outcome, posted>>

\* ------------------------------------------------------------ pure helpers
RECURSIVE ltrim(_), rtrim(_)
ltrim(s) == IF s # <<>> /\ Head(s) = WS THEN ltrim(Tail(s)) ELSE s
rtrim(s) == IF s # <<>> /\ s[Len(s)] = WS THEN rtrim(SubSeq(s, 1, Len(s) - 1)) ELSE s
trim(s) == rtrim(ltrim(s))

\* JavaScript truthiness of a string | undefined | null
Truthy(s) == s # Absent /\ s # <<>>

ok(status) == status >= OkLow /\ status <= OkHigh

NoResult == [outcome |-> "none", body |-> "", tok |-> Absent, error |-> "", status |-> 0]
Value(b, t) == [outcome |-> "value", body |-> b, tok |-> t, error |-> "", status |-> 0]
Error(e, s) == [outcome |-> "error", body |-> "", tok |-> Absent, error |-> e, status |-> s]

\* an operation on the token file: its name, its argument, what it returned,
\* whether it threw, the file before it, and the operation made before it
Op(n, a, r, t, f, p) ==
  [name |-> n, arg |-> a, ret |-> r, threw |-> t, before |-> f,
   prev |-> [name |-> p.name, arg |-> p.arg]]
NoOp == [name |-> "none", arg |-> Absent, ret |-> Absent, threw |-> FALSE,
         before |-> Absent, prev |-> [name |-> "none", arg |-> Absent]]

\* a network event of a call: a request sent (POST, GET) or an answer received
\* (AUTHRESP with the token issued, RESP with the body)
Ev(e, t, s, b) == [ev |-> e, tok |-> t, status |-> s, body |-> b, url |-> ""]

\* fetch(url, {headers: {Authorization: `Bearer ${token}`}}): a GET sent
Get(t, u) == [ev |-> "GET", tok |-> t, status |-> 0, body |-> "", url |-> u]

\* --------------------------------------------------------- the token file
\* loadTokenFromFile: existsSync && statSync.size > 0 ? readFileSync.trim() : null
\* a load that returns the content as it is
loaded_untrimmed(f) == IF f # Absent /\ Len(f) > 0 THEN f ELSE Absent

\* the same, of a file whose content is f
loaded(f) == IF f # Absent /\ Len(f) > 0 THEN trim(f) ELSE Absent

loadTokenFromFile == loaded(file)

\* a save that does not reach the file
saveTokenToFile_lost(t) == UNCHANGED file

\* a save that appends to the file (appendFileSync)
saveTokenToFile_append(t) == file' = IF file = Absent THEN t ELSE file \o t

\* saveTokenToFile(token): writeFileSync overwrites the file with token
saveTokenToFile(t) == file' = t

\* a clear that leaves the file where it is
clearTokenFile_noop == UNCHANGED file

\* clearTokenFile: unlinkSync when the file exists
clearTokenFile == file' = IF file # Absent THEN Absent ELSE file

\* ------------------------------------------------------------- conditions
\* a guard that tests the client id alone
HasCredentials_idOnly == clientId # ""

\* fetchAccessToken's guard, negated: both credentials are set
HasCredentials == clientId # "" /\ clientSecret # ""

\* ensureValidToken's `!this.accessToken`
NoTokenInMemory == ~Truthy(accessToken)

\* a test that takes every 4xx answer for an expired token
IsUnauthorized_any4xx(status) == status >= 400 /\ status < 500

\* makeAuthenticatedRequest's `res.status === 401`
IsUnauthorized(status) == status = Unauthorized

\* a first answer whose status is not looked at
requestFailed_ignored(status) == FALSE

\* makeAuthenticatedRequest's `!res.ok` of the first answer
requestFailed(status) == ~ok(status)

\* a retry whose answer is not looked at
retryFailed_unchecked(status) == FALSE

\* makeAuthenticatedRequest's `!retryRes.ok` of the retry's answer
retryFailed(status) == ~ok(status)

\* a fetch that does not look at the status of the answer
fetchFails_statusIgnored(status, json) == ~json

\* fetchAccessToken after its fetch: `!res.ok` throws, and `await res.json()`
\* throws on a body that does not parse
fetchFails(status, json) == ~ok(status) \/ ~json

\* ------------------------------------------------------------------- Init
Init ==
  /\ clientId \in {"", "id"}
  /\ clientSecret \in {"", "secret"}
  /\ accessToken = Absent
  /\ file \in InitFiles
  /\ pc = [c \in Calls |-> "idle"]
  /\ kind = [c \in Calls |-> "none"]
  /\ token = [c \in Calls |-> Absent]
  /\ url = [c \in Calls |-> ""]
  /\ result = [c \in Calls |-> NoResult]
  /\ log = [c \in Calls |-> <<>>]
  /\ pre = [c \in Calls |-> [accessToken |-> Absent, file |-> Absent]]
  /\ issued = 1
  /\ authCalls = 0
  /\ got401 = FALSE
  /\ calls = <<>>
  /\ started = 0
  /\ invalidated = {}
  /\ store = NoOp
  /\ outcome = [c \in Calls |-> NoResult]
  /\ posted = 0

\* ------------------------------------------------------- parts of a step
\* the call throws: the promise of the operation is rejected
Throw(c, e, s) ==
  /\ pc' = [pc EXCEPT ![c] = "failed"]
  /\ result' = [result EXCEPT ![c] = Error(e, s)]

\* the call returns a value
Resolve(c, b, t) ==
  /\ pc' = [pc EXCEPT ![c] = "done"]
  /\ result' = [result EXCEPT ![c] = Value(b, t)]

\* fetchAccessToken up to its `await fetch(...)`: throws when a credential is
\* missing, else sends the POST; l is the call's log so far, next is where
\* the call waits for the answer
fetchAccessToken(c, l, next) ==
  IF ~HasCredentials
  THEN /\ Throw(c, "credentials", 0)
       /\ log' = [log EXCEPT ![c] = l]
       /\ UNCHANGED authCalls
  ELSE /\ pc' = [pc EXCEPT ![c] = next]
       /\ log' = [log EXCEPT ![c] = Append(l, Ev("POST", Absent, 0, ""))]
       /\ authCalls' = authCalls + 1
       /\ UNCHANGED result

\* ensureValidToken returns t: to its own caller (k = "ensure"), or into the
\* local `token` of makeAuthenticatedRequest (k = "execute")
ensureReturns(c, k, t) ==
  IF k = "ensure"
  THEN /\ Resolve(c, "", t)
       /\ UNCHANGED token
  ELSE /\ pc' = [pc EXCEPT ![c] = "ensured"]
       /\ token' = [token EXCEPT ![c] = t]
       /\ UNCHANGED result

\* an ensureValidToken that adopts whatever loadTokenFromFile returns but null
ensureValidToken_untested(c, k) ==
  IF NoTokenInMemory /\ loadTokenFromFile # Absent
  THEN /\ accessToken' = loadTokenFromFile
       /\ ensureReturns(c, k, loadTokenFromFile)
       /\ UNCHANGED <<file, log, authCalls>>
  ELSE /\ fetchAccessToken(c, log[c], "ensureFetch")
       /\ UNCHANGED <<accessToken, file, token>>

\* an ensureValidToken that never looks at the file
ensureValidToken_alwaysFetch(c, k) ==
  /\ fetchAccessToken(c, log[c], "ensureFetch")
  /\ UNCHANGED <<accessToken, file, token>>

\* an ensureValidToken that returns the token in memory when there is one
ensureValidToken_cached(c, k) ==
  IF ~NoTokenInMemory
  THEN /\ ensureReturns(c, k, accessToken)
       /\ UNCHANGED <<accessToken, file, log, authCalls>>
  ELSE IF Truthy(loadTokenFromFile)
  THEN /\ accessToken' = loadTokenFromFile
       /\ ensureReturns(c, k, loadTokenFromFile)
       /\ UNCHANGED <<file, log, authCalls>>
  ELSE /\ fetchAccessToken(c, log[c], "ensureFetch")
       /\ UNCHANGED <<accessToken, file, token>>

\* ensureValidToken up to its return or its await: the token of the file is
\* adopted when there is none in memory, else a token is fetched
ensureValidToken(c, k) ==
  IF NoTokenInMemory /\ Truthy(loadTokenFromFile)
  THEN /\ accessToken' = loadTokenFromFile
       /\ ensureReturns(c, k, loadTokenFromFile)
       /\ UNCHANGED <<file, log, authCalls>>
  ELSE /\ fetchAccessToken(c, log[c], "ensureFetch")
       /\ UNCHANGED <<accessToken, file, token>>

\* ---------------------------------------------------------------- actions
Idle == \A d \in Calls : pc[d] = "idle"

\* A caller calls makeAuthenticatedRequest (through an endpoint method) or
\* ensureValidToken, and the call runs to its first await.  Calls are made
\* one after the other: each is awaited before the next is made.
Call(c) ==
  /\ Idle
  /\ started < MaxCalls
  /\ \E k \in Kinds :
       /\ kind' = [kind EXCEPT ![c] = k]
       /\ calls' = Append(calls, k)
       /\ IF k = "execute"
          THEN \E u \in Urls : url' = [url EXCEPT ![c] = u]
          ELSE UNCHANGED url
       /\ ensureValidToken(c, k)
  /\ pre' = [pre EXCEPT ![c] = [accessToken |-> accessToken, file |-> file]]
  /\ started' = started + 1
  /\ UNCHANGED <<clientId, clientSecret, issued, got401, invalidated, store, outcome, posted>>

\* The authentication server keeps its contract: a 2xx answer whose body
\* parses carries access_token, a non-empty string, and every token it
\* issues is a new one (the n-th is the string <<n>>).
\*
\* The authentication server answers the POST of ensureValidToken:
\* fetchAccessToken throws on a non-2xx answer or an unparseable body, else
\* returns the access_token, which is stored in memory and saved.
EnsureFetched(c) ==
  /\ pc[c] = "ensureFetch"
  /\ \E s \in AuthStatuses, json \in BOOLEAN :
       IF fetchFails(s, json)
       THEN /\ IF ~ok(s) THEN Throw(c, "token", s) ELSE Throw(c, "json", 0)
            /\ log' = [log EXCEPT ![c] = Append(@, Ev("AUTHRESP", Absent, s, ""))]
            /\ UNCHANGED <<accessToken, file, token, issued>>
       ELSE LET t == <<issued + 1>> IN
            /\ issued' = issued + 1
            /\ log' = [log EXCEPT ![c] = Append(@, Ev("AUTHRESP", t, s, ""))]
            /\ accessToken' = t
            /\ saveTokenToFile(t)
            /\ ensureReturns(c, kind[c], t)
  /\ UNCHANGED <<clientId, clientSecret, kind, pre, authCalls, got401, calls, started,
                 invalidated, url, store, outcome, posted>>

\* a GET sent with the promise of ensureValidToken, not its value
Request_unawaited(c) ==
  /\ pc[c] = "ensured"
  /\ pc' = [pc EXCEPT ![c] = "request"]
  /\ log' = [log EXCEPT ![c] = Append(@, Get(Absent, url[c]))]
  /\ UNCHANGED <<clientId, clientSecret, accessToken, file, kind, token, result,
                 pre, issued, authCalls, got401, calls, started, invalidated, url, store, outcome, posted>>

\* makeAuthenticatedRequest sends the GET with the token ensureValidToken returned
Request(c) ==
  /\ pc[c] = "ensured"
  /\ pc' = [pc EXCEPT ![c] = "request"]
  /\ log' = [log EXCEPT ![c] = Append(@, Get(token[c], url[c]))]
  /\ UNCHANGED <<clientId, clientSecret, accessToken, file, kind, token, result,
                 pre, issued, authCalls, got401, calls, started, invalidated, url, store, outcome, posted>>

\* a 401 handler that adopts the token in memory when another call has
\* replaced it since this call read it, and refreshes otherwise
Response_deduplicated(c) ==
  /\ pc[c] = "request"
  /\ \E s \in Statuses, b \in Bodies :
       LET l == Append(log[c], Ev("RESP", Absent, s, b)) IN
       IF IsUnauthorized(s) /\ Truthy(accessToken) /\ accessToken # token[c]
       THEN /\ got401' = TRUE
            /\ invalidated' = invalidated \cup {token[c]}
            /\ token' = [token EXCEPT ![c] = accessToken]
            /\ pc' = [pc EXCEPT ![c] = "refreshed"]
            /\ log' = [log EXCEPT ![c] = l]
            /\ UNCHANGED <<file, authCalls, result>>
       ELSE IF IsUnauthorized(s)
       THEN /\ got401' = TRUE
            /\ invalidated' = invalidated \cup {token[c]}
            /\ clearTokenFile
            /\ fetchAccessToken(c, l, "refreshFetch")
            /\ UNCHANGED token
       ELSE /\ log' = [log EXCEPT ![c] = l]
            /\ IF requestFailed(s) THEN Throw(c, "request", s) ELSE Resolve(c, b, Absent)
            /\ UNCHANGED <<file, authCalls, got401, invalidated, token>>
  /\ UNCHANGED <<clientId, clientSecret, accessToken, kind, pre, issued,
                 calls, started, url, store, outcome, posted>>

\* The resource server answers the first GET.  401: refreshToken clears the
\* file and fetches a token.  Another non-2xx: the call throws.  2xx: the
\* call returns the body.
Response(c) ==
  /\ pc[c] = "request"
  /\ \E s \in Statuses, b \in Bodies :
       LET l == Append(log[c], Ev("RESP", Absent, s, b)) IN
       IF IsUnauthorized(s)
       THEN /\ got401' = TRUE
            /\ invalidated' = invalidated \cup {token[c]}
            /\ clearTokenFile
            /\ fetchAccessToken(c, l, "refreshFetch")
       ELSE /\ log' = [log EXCEPT ![c] = l]
            /\ IF requestFailed(s) THEN Throw(c, "request", s) ELSE Resolve(c, b, Absent)
            /\ UNCHANGED <<file, authCalls, got401, invalidated>>
  /\ UNCHANGED <<clientId, clientSecret, accessToken, kind, token, pre, issued,
                 calls, started, url, store, outcome, posted>>

\* The authentication server answers the POST of refreshToken
RefreshFetched(c) ==
  /\ pc[c] = "refreshFetch"
  /\ \E s \in AuthStatuses, json \in BOOLEAN :
       IF fetchFails(s, json)
       THEN /\ IF ~ok(s) THEN Throw(c, "token", s) ELSE Throw(c, "json", 0)
            /\ log' = [log EXCEPT ![c] = Append(@, Ev("AUTHRESP", Absent, s, ""))]
            /\ UNCHANGED <<accessToken, file, token, issued>>
       ELSE LET t == <<issued + 1>> IN
            /\ issued' = issued + 1
            /\ log' = [log EXCEPT ![c] = Append(@, Ev("AUTHRESP", t, s, ""))]
            /\ accessToken' = t
            /\ saveTokenToFile(t)
            /\ token' = [token EXCEPT ![c] = t]
            /\ pc' = [pc EXCEPT ![c] = "refreshed"]
            /\ UNCHANGED result
  /\ UNCHANGED <<clientId, clientSecret, kind, pre, authCalls, got401, calls, started,
                 invalidated, url, store, outcome, posted>>

\* a retry sent with the token of the first GET
Retry_sameToken(c) ==
  /\ pc[c] = "refreshed"
  /\ pc' = [pc EXCEPT ![c] = "retry"]
  /\ LET sent == SelectSeq(log[c], LAMBDA x : x.ev = "GET")
     IN log' = [log EXCEPT ![c] = Append(@, Get(sent[1].tok, url[c]))]
  /\ UNCHANGED <<clientId, clientSecret, accessToken, file, kind, token, result,
                 pre, issued, authCalls, got401, calls, started, invalidated, url, store, outcome, posted>>

\* a retry sent with the token in memory, not the one refreshToken returned
Retry_fromMemory(c) ==
  /\ pc[c] = "refreshed"
  /\ pc' = [pc EXCEPT ![c] = "retry"]
  /\ log' = [log EXCEPT ![c] = Append(@, Get(accessToken, url[c]))]
  /\ UNCHANGED <<clientId, clientSecret, accessToken, file, kind, token, result,
                 pre, issued, authCalls, got401, calls, started, invalidated, url, store,
                 outcome, posted>>

\* makeAuthenticatedRequest sends the GET again with the refreshed token
Retry(c) ==
  /\ pc[c] = "refreshed"
  /\ pc' = [pc EXCEPT ![c] = "retry"]
  /\ log' = [log EXCEPT ![c] = Append(@, Get(token[c], url[c]))]
  /\ UNCHANGED <<clientId, clientSecret, accessToken, file, kind, token, result,
                 pre, issued, authCalls, got401, calls, started, invalidated, url, store, outcome, posted>>

\* a retry that treats a 401 like the first request does: refresh and retry again
RetryResponse_again(c) ==
  /\ pc[c] = "retry"
  /\ \E s \in Statuses, b \in Bodies :
       LET l == Append(log[c], Ev("RESP", Absent, s, b)) IN
       IF IsUnauthorized(s)
       THEN /\ got401' = TRUE
            /\ invalidated' = invalidated \cup {token[c]}
            /\ clearTokenFile
            /\ fetchAccessToken(c, l, "refreshFetch")
       ELSE /\ log' = [log EXCEPT ![c] = l]
            /\ IF retryFailed(s) THEN Throw(c, "afterRefresh", s) ELSE Resolve(c, b, Absent)
            /\ UNCHANGED <<file, authCalls, got401, invalidated>>
  /\ UNCHANGED <<clientId, clientSecret, accessToken, kind, token, pre, issued,
                 calls, started, url, store, outcome, posted>>

\* a retry that is sent again, with the same token, as long as it is
\* answered 401
RetryResponse_until(c) ==
  /\ pc[c] = "retry"
  /\ \E s \in Statuses, b \in Bodies :
       IF s = Unauthorized
       THEN /\ got401' = TRUE
            /\ pc' = [pc EXCEPT ![c] = "refreshed"]
            /\ log' = [log EXCEPT ![c] = SubSeq(@, 1, Len(@) - 1)]
            /\ UNCHANGED result
       ELSE /\ log' = [log EXCEPT ![c] = Append(@, Ev("RESP", Absent, s, b))]
            /\ got401' = got401
            /\ IF retryFailed(s) THEN Throw(c, "afterRefresh", s) ELSE Resolve(c, b, Absent)
  /\ UNCHANGED <<clientId, clientSecret, accessToken, file, kind, token, pre,
                 issued, authCalls, calls, started, invalidated, url, store, outcome, posted>>

\* a retry whose error carries res.status, the status of the first answer
RetryResponse_firstStatus(c) ==
  /\ pc[c] = "retry"
  /\ \E s \in Statuses, b \in Bodies :
       /\ log' = [log EXCEPT ![c] = Append(@, Ev("RESP", Absent, s, b))]
       /\ got401' = (got401 \/ s = Unauthorized)
       /\ IF retryFailed(s) THEN Throw(c, "afterRefresh", Unauthorized)
                             ELSE Resolve(c, b, Absent)
  /\ UNCHANGED <<clientId, clientSecret, accessToken, file, kind, token, pre,
                 issued, authCalls, calls, started, invalidated, url, store, outcome, posted>>

\* The resource server answers the retry: a non-2xx throws, a 2xx returns the body
RetryResponse(c) ==
  /\ pc[c] = "retry"
  /\ \E s \in Statuses, b \in Bodies :
       /\ log' = [log EXCEPT ![c] = Append(@, Ev("RESP", Absent, s, b))]
       /\ got401' = (got401 \/ s = Unauthorized)
       /\ IF retryFailed(s) THEN Throw(c, "afterRefresh", s) ELSE Resolve(c, b, Absent)
  /\ UNCHANGED <<clientId, clientSecret, accessToken, file, kind, token, pre,
                 issued, authCalls, calls, started, invalidated, url, store, outcome, posted>>

\* The caller has the outcome of the call; the call's frame is gone
Return(c) ==
  /\ pc[c] \in {"done", "failed"}
  /\ pc' = [pc EXCEPT ![c] = "idle"]
  /\ kind' = [kind EXCEPT ![c] = "none"]
  /\ token' = [token EXCEPT ![c] = Absent]
  /\ url' = [url EXCEPT ![c] = ""]
  /\ result' = [result EXCEPT ![c] = NoResult]
  /\ log' = [log EXCEPT ![c] = <<>>]
  /\ pre' = [pre EXCEPT ![c] = [accessToken |-> Absent, file |-> Absent]]
  /\ UNCHANGED <<clientId, clientSecret, accessToken, file, issued, authCalls,
                 got401, calls, started, invalidated, store, outcome, posted>>

\* The process ends and a new one constructs a client: new OpenSkyClient(id, secret)
Restart ==
  /\ Idle
  /\ calls # <<>>
  /\ clientId' \in {"", "id"}
  /\ clientSecret' \in {"", "secret"}
  /\ accessToken' = Absent
  /\ authCalls' = 0
  /\ got401' = FALSE
  /\ calls' = <<>>
  /\ UNCHANGED <<file, pc, kind, token, url, result, log, pre, issued, started,
                 invalidated, store, outcome, posted>>

\* The process dies while calls are in progress (their answers are never
\* consumed) and a new one constructs a client
Crash ==
  /\ ~Idle
  /\ clientId' \in {"", "id"}
  /\ clientSecret' \in {"", "secret"}
  /\ accessToken' = Absent
  /\ pc' = [c \in Calls |-> "idle"]
  /\ kind' = [c \in Calls |-> "none"]
  /\ token' = [c \in Calls |-> Absent]
  /\ url' = [c \in Calls |-> ""]
  /\ result' = [c \in Calls |-> NoResult]
  /\ log' = [c \in Calls |-> <<>>]
  /\ pre' = [c \in Calls |-> [accessToken |-> Absent, file |-> Absent]]
  /\ authCalls' = 0
  /\ got401' = FALSE
  /\ calls' = <<>>
  /\ UNCHANGED <<file, issued, started, invalidated, store, outcome, posted>>

Next ==
  \/ \E c \in Calls : Call(c)
  \/ \E c \in Calls : EnsureFetched(c)
  \/ \E c \in Calls : Request(c)
  \/ \E c \in Calls : Response(c)
  \/ \E c \in Calls : RefreshFetched(c)
  \/ \E c \in Calls : Retry(c)
  \/ \E c \in Calls : RetryResponse(c)
  \/ \E c \in Calls : Return(c)
  \/ Restart
  \/ Crash

Spec == Init /\ [][Next]_vars

\* Every network call gets its answer, and the continuation of an answered
\* call runs; the process stays alive.  Nothing makes a caller call.
NextLive ==
  \/ \E c \in Calls : Call(c)
  \/ \E c \in Calls : EnsureFetched(c)
  \/ \E c \in Calls : Request(c)
  \/ \E c \in Calls : Response(c)
  \/ \E c \in Calls : RefreshFetched(c)
  \/ \E c \in Calls : Retry(c)
  \/ \E c \in Calls : RetryResponse(c)
  \/ \E c \in Calls : Return(c)
  \/ Restart

Answered ==
  \A c \in Calls :
    /\ WF_vars(EnsureFetched(c))
    /\ WF_vars(Request(c))
    /\ WF_vars(Response(c))
    /\ WF_vars(RefreshFetched(c))
    /\ WF_vars(Retry(c))
    /\ WF_vars(RetryResponse(c))

SpecLive == Init /\ [][NextLive]_vars /\ Answered

\* ------------------------------------------------------ concurrent calls
\* The two callers whose calls may overlap
Pair == {1, 2}

\* A caller makes a call while another may be in progress (Promise.all, or
\* calls that are not awaited); two calls are made in a behaviour
ConcurrentCall(c) ==
  /\ pc[c] = "idle"
  /\ started < Cardinality(Pair)
  /\ \E k \in Kinds :
       /\ kind' = [kind EXCEPT ![c] = k]
       /\ calls' = Append(calls, k)
       /\ IF k = "execute"
          THEN \E u \in Urls : url' = [url EXCEPT ![c] = u]
          ELSE UNCHANGED url
       /\ ensureValidToken(c, k)
  /\ pre' = [pre EXCEPT ![c] = [accessToken |-> accessToken, file |-> file]]
  /\ started' = started + 1
  /\ UNCHANGED <<clientId, clientSecret, issued, got401, invalidated, store, outcome, posted>>

\* The continuation of a resolved promise is a microtask: the event loop
\* runs it before it delivers the next HTTP answer.  A call that holds the
\* token its token operation returned sends its GET before any answer is
\* consumed.
NoMicrotask == \A d \in Calls : pc[d] \notin {"ensured", "refreshed"}

NextConcurrent ==
  \/ \E c \in Pair : ConcurrentCall(c)
  \/ \E c \in Calls : NoMicrotask /\ EnsureFetched(c)
  \/ \E c \in Calls : Request(c)
  \/ \E c \in Calls : NoMicrotask /\ Response(c)
  \/ \E c \in Calls : NoMicrotask /\ RefreshFetched(c)
  \/ \E c \in Calls : Retry(c)
  \/ \E c \in Calls : NoMicrotask /\ RetryResponse(c)
  \/ \E c \in Calls : Return(c)
  \/ Restart
  \/ Crash

SpecConcurrent == Init /\ [][NextConcurrent]_vars

\* Every interleaving of two calls at their await points: the continuation
\* of an await may run after any number of other continuations (answers
\* that arrive together, a fetch that resolves at once).
NextInterleaved ==
  \/ \E c \in Pair : ConcurrentCall(c)
  \/ \E c \in Calls : EnsureFetched(c)
  \/ \E c \in Calls : Request(c)
  \/ \E c \in Calls : Response(c)
  \/ \E c \in Calls : RefreshFetched(c)
  \/ \E c \in Calls : Retry(c)
  \/ \E c \in Calls : RetryResponse(c)
  \/ \E c \in Calls : Return(c)
  \/ Restart
  \/ Crash

SpecInterleaved == Init /\ [][NextInterleaved]_vars

\* ------------------------------------------------- the endpoint methods
Methods == {"getArrivalsByAirport", "getDeparturesByAirport", "getAllStates",
            "getOwnStates", "getFlightsInInterval", "getFlightsByAircraft",
            "getTrackByAircraft"}

\* the url a method builds, without its query string
UrlOf(m) ==
  CASE m = "getArrivalsByAirport" -> "/flights/arrival"
    [] m = "getDeparturesByAirport" -> "/flights/departure"
    [] m = "getAllStates" -> "/states/all"
    [] m = "getOwnStates" -> "/states/own"
    [] m = "getFlightsInInterval" -> "/flights/all"
    [] m = "getFlightsByAircraft" -> "/flights/aircraft"
    [] m = "getTrackByAircraft" -> "/tracks"

\* A caller calls an endpoint method: it builds its url and calls
\* makeAuthenticatedRequest(url), which runs to its first await; as many
\* calls are made in a behaviour as there are callers
EndpointCall(c) ==
  /\ Idle
  /\ started < NumCalls
  /\ \E m \in Methods : url' = [url EXCEPT ![c] = UrlOf(m)]
  /\ kind' = [kind EXCEPT ![c] = "execute"]
  /\ calls' = Append(calls, "execute")
  /\ ensureValidToken(c, "execute")
  /\ pre' = [pre EXCEPT ![c] = [accessToken |-> accessToken, file |-> file]]
  /\ started' = started + 1
  /\ outcome' = [outcome EXCEPT ![c] = NoResult]
  /\ UNCHANGED <<clientId, clientSecret, issued, got401, invalidated, store, posted>>

\* a method that catches the error of the request and returns an empty body
EndpointReturn_caught(c) ==
  /\ pc[c] \in {"done", "failed"}
  /\ outcome' = [outcome EXCEPT ![c] = IF pc[c] = "failed" THEN Value("", Absent)
                                       ELSE result[c]]
  /\ pc' = [pc EXCEPT ![c] = "idle"]
  /\ kind' = [kind EXCEPT ![c] = "none"]
  /\ token' = [token EXCEPT ![c] = Absent]
  /\ url' = [url EXCEPT ![c] = ""]
  /\ result' = [result EXCEPT ![c] = NoResult]
  /\ log' = [log EXCEPT ![c] = <<>>]
  /\ pre' = [pre EXCEPT ![c] = [accessToken |-> Absent, file |-> Absent]]
  /\ UNCHANGED <<clientId, clientSecret, accessToken, file, issued, authCalls,
                 got401, calls, started, invalidated, store, posted>>

\* `return await this.makeAuthenticatedRequest(url)`: the method gives its
\* caller what makeAuthenticatedRequest returned or threw; its frame is gone
EndpointReturn(c) ==
  /\ pc[c] \in {"done", "failed"}
  /\ outcome' = [outcome EXCEPT ![c] = result[c]]
  /\ pc' = [pc EXCEPT ![c] = "idle"]
  /\ kind' = [kind EXCEPT ![c] = "none"]
  /\ token' = [token EXCEPT ![c] = Absent]
  /\ url' = [url EXCEPT ![c] = ""]
  /\ result' = [result EXCEPT ![c] = NoResult]
  /\ log' = [log EXCEPT ![c] = <<>>]
  /\ pre' = [pre EXCEPT ![c] = [accessToken |-> Absent, file |-> Absent]]
  /\ UNCHANGED <<clientId, clientSecret, accessToken, file, issued, authCalls,
                 got401, calls, started, invalidated, store, posted>>

NextEndpoints ==
  \/ \E c \in Calls : EndpointCall(c)
  \/ \E c \in Calls : EnsureFetched(c)
  \/ \E c \in Calls : Request(c)
  \/ \E c \in Calls : Response(c)
  \/ \E c \in Calls : RefreshFetched(c)
  \/ \E c \in Calls : Retry(c)
  \/ \E c \in Calls : RetryResponse(c)
  \/ \E c \in Calls : EndpointReturn(c)

SpecEndpoints == Init /\ [][NextEndpoints]_vars

\* ------------------------------------------------- the legacy functions
\* the token a caller hands to getArrivalByAirport / getDepartureByAirport:
\* none (undefined), an empty one, the one of the file, another one
SuppliedTokens == {Absent, <<>>, <<1>>, <<2>>}
LegacyUrls == {"/flights/arrival", "/flights/departure"}

\* getAccessToken, line 270: new OpenSkyClient(clientId, clientSecret)
NewClient(c) ==
  /\ Idle
  /\ started < MaxCalls
  /\ pc' = [pc EXCEPT ![c] = "constructed"]
  /\ clientId' \in {"", "id"}
  /\ clientSecret' \in {"", "secret"}
  /\ accessToken' = Absent
  /\ authCalls' = 0
  /\ got401' = FALSE
  /\ calls' = <<>>
  /\ started' = started + 1
  /\ UNCHANGED <<file, kind, token, url, result, log, pre, issued, invalidated,
                 store, outcome, posted>>

\* getAccessToken, line 271: client.ensureValidToken(), up to its return or
\* its await
GetAccessToken(c) ==
  /\ pc[c] = "constructed"
  /\ kind' = [kind EXCEPT ![c] = "ensure"]
  /\ calls' = Append(calls, "ensure")
  /\ ensureValidToken(c, "ensure")
  /\ posted' = posted + (authCalls' - authCalls)
  /\ pre' = [pre EXCEPT ![c] = [accessToken |-> accessToken, file |-> file]]
  /\ UNCHANGED <<clientId, clientSecret, issued, got401, started, invalidated, url,
                 store, outcome>>

\* getArrivalByAirport / getDepartureByAirport send their GET with the token
\* of the caller
LegacyRequest(c) ==
  /\ Idle
  /\ started < MaxCalls
  /\ \E t \in SuppliedTokens, u \in LegacyUrls :
       /\ token' = [token EXCEPT ![c] = t]
       /\ url' = [url EXCEPT ![c] = u]
       /\ log' = [log EXCEPT ![c] = <<Get(t, u)>>]
  /\ kind' = [kind EXCEPT ![c] = "legacy"]
  /\ pc' = [pc EXCEPT ![c] = "legacyRequest"]
  /\ pre' = [pre EXCEPT ![c] = [accessToken |-> accessToken, file |-> file]]
  /\ started' = started + 1
  /\ UNCHANGED <<clientId, clientSecret, accessToken, file, result, issued, authCalls,
                 got401, calls, invalidated, store, outcome, posted>>

\* a legacy function that deletes the token file when it is answered 401
LegacyResponse_clearing(c) ==
  /\ pc[c] = "legacyRequest"
  /\ \E s \in Statuses, b \in Bodies :
       /\ log' = [log EXCEPT ![c] = Append(@, Ev("RESP", Absent, s, b))]
       /\ IF ~ok(s) THEN Throw(c, "legacy", s) ELSE Resolve(c, b, Absent)
       /\ IF s = Unauthorized THEN clearTokenFile ELSE UNCHANGED file
  /\ UNCHANGED <<clientId, clientSecret, accessToken, kind, token, url, pre,
                 issued, authCalls, got401, calls, started, invalidated, store,
                 outcome, posted>>

\* The resource server answers the GET of a legacy function: `!res.ok`
\* throws with the status, else the body is returned
LegacyResponse(c) ==
  /\ pc[c] = "legacyRequest"
  /\ \E s \in Statuses, b \in Bodies :
       /\ log' = [log EXCEPT ![c] = Append(@, Ev("RESP", Absent, s, b))]
       /\ IF ~ok(s) THEN Throw(c, "legacy", s) ELSE Resolve(c, b, Absent)
  /\ UNCHANGED <<clientId, clientSecret, accessToken, file, kind, token, url, pre,
                 issued, authCalls, got401, calls, started, invalidated, store,
                 outcome, posted>>

NextLegacy ==
  \/ \E c \in Calls : NewClient(c)
  \/ \E c \in Calls : GetAccessToken(c)
  \/ \E c \in Calls : EnsureFetched(c)
  \/ \E c \in Calls : LegacyRequest(c)
  \/ \E c \in Calls : LegacyResponse(c)
  \/ \E c \in Calls : Return(c)

SpecLegacy == Init /\ [][NextLegacy]_vars

\* ------------------------------------------- the token file on its own
\* The three file operations applied one after the other, in any order, to
\* any file and with any value: strings of at most MaxLen characters, of
\* which WS is whitespace.
Chars == {WS, 1, 2}
RECURSIVE Strings(_)
Strings(n) ==
  IF n = 0 THEN {<<>>}
  ELSE Strings(n - 1) \cup {Append(v, ch) : v \in {w \in Strings(n - 1) : Len(w) = n - 1},
                                          ch \in Chars}
Values == Strings(MaxLen)

\* fs.unlinkSync throws ENOENT when the file does not exist
unlinkThrows(f) == f = Absent

\* everything but the file and the record of the operation
client == <<clientId, clientSecret, accessToken, pc, kind, token, result, log, pre,
            issued, authCalls, got401, calls, started, invalidated, url,
            outcome, posted>>

Save(v) ==
  /\ saveTokenToFile(v)
  /\ store' = Op("save", v, Absent, FALSE, file, store)
  /\ UNCHANGED client

Load ==
  /\ store' = Op("load", Absent, loadTokenFromFile, FALSE, file, store)
  /\ UNCHANGED <<file, client>>

\* a clear that unlinks without looking whether the file exists
Clear_unguarded ==
  /\ clearTokenFile
  /\ store' = Op("clear", Absent, Absent, unlinkThrows(file), file, store)
  /\ UNCHANGED client

Clear ==
  /\ clearTokenFile
  /\ store' = Op("clear", Absent, Absent,
                 IF file # Absent THEN unlinkThrows(file) ELSE FALSE, file, store)
  /\ UNCHANGED client

NextStore ==
  \/ \E v \in Values : Save(v)
  \/ Load
  \/ Clear

SpecStore == Init /\ [][NextStore]_vars

\* ------------------------------------------------ reading a call's log
Sel(l, e) == SelectSeq(l, LAMBDA x : x.ev = e)
Gets(c) == Sel(log[c], "GET")
Posts(c) == Sel(log[c], "POST")
Resps(c) == Sel(log[c], "RESP")
AuthResps(c) == Sel(log[c], "AUTHRESP")
RespStatuses(c) == [i \in 1..Len(Resps(c)) |-> Resps(c)[i].status]

\* the events of the call after the answer to its first GET
AfterFirstResp(c) ==
  LET l == log[c]
      at == {i \in 1..Len(l) : l[i].ev = "RESP"}
  IN IF at = {} THEN <<>>
     ELSE LET first == CHOOSE i \in at : \A j \in at : i <= j
          IN SubSeq(l, first + 1, Len(l))

Terminal(c) == pc[c] \in {"done", "failed"}
Executes(c) == kind[c] = "execute"
Ensures(c) == kind[c] = "ensure"

\* ----------------------------------------------------------------- claims
\* C1: an execute call whose first GET is answered 401 and whose retry is
\* answered 2xx returns the retry's body; the authentication endpoint is
\* called exactly once after the 401, exactly two GETs are sent, and when
\* the call completes the token file holds the token the refresh fetched.
C1_RefreshThenRetry ==
  \A c \in Calls :
    (/\ Executes(c)
     /\ Len(Resps(c)) = 2
     /\ Resps(c)[1].status = Unauthorized
     /\ ok(Resps(c)[2].status)) =>
      /\ pc[c] = "done"
      /\ result[c].outcome = "value"
      /\ result[c].body = Resps(c)[2].body
      /\ Len(Sel(AfterFirstResp(c), "POST")) = 1
      /\ Len(Gets(c)) = 2
      /\ Truthy(file)
      /\ file = AuthResps(c)[Len(AuthResps(c))].tok

C1_Witness ==
  \E c \in Calls :
    /\ Executes(c) /\ pc[c] = "done"
    /\ RespStatuses(c) = <<401, 200>>
    /\ Resps(c)[1].body # Resps(c)[2].body
    /\ Truthy(pre[c].file) /\ file # pre[c].file

\* C2: an execute call whose first GET is answered 401 and whose retry,
\* after a successful refresh, is answered 401 again fails with the request
\* error of the retry carrying 401; no third GET and no second refresh.
C2_Double401 ==
  \A c \in Calls :
    (/\ Executes(c)
     /\ Len(Resps(c)) >= 2
     /\ Resps(c)[1].status = Unauthorized
     /\ Resps(c)[2].status = Unauthorized) =>
      /\ pc[c] = "failed"
      /\ result[c] = Error("afterRefresh", Unauthorized)
      /\ Len(Gets(c)) = 2
      /\ Len(Sel(AfterFirstResp(c), "POST")) = 1
      /\ log[c][Len(log[c])].ev = "RESP"

C2_Witness ==
  \E c \in Calls :
    /\ Executes(c) /\ pc[c] = "failed"
    /\ RespStatuses(c) = <<401, 401>>
    /\ Len(AuthResps(c)) >= 1

\* C3: one execute call follows START -> REQUEST -> {DONE, FAILED,
\* REFRESH -> RETRY -> {DONE, FAILED}}: at most two GETs; the second GET is
\* sent only if the first was answered 401 and the refresh succeeded; once
\* DONE or FAILED is reached the call makes no further network request.
C3_Shape(c) ==
  /\ Len(Gets(c)) <= 2
  /\ Len(Gets(c)) = 2 =>
       /\ Resps(c) # <<>>
       /\ Resps(c)[1].status = Unauthorized
       /\ LET a == Sel(AfterFirstResp(c), "AUTHRESP")
          IN a # <<>> /\ ok(a[1].status) /\ Truthy(a[1].tok)
       /\ Sel(AfterFirstResp(c), "GET") = <<Gets(c)[2]>>

C3_TerminalStays(c) ==
  Terminal(c) =>
    \/ pc'[c] = pc[c] /\ log'[c] = log[c] /\ result'[c] = result[c]
    \/ pc'[c] = "idle" /\ log'[c] = <<>>

C3_StateMachine ==
  /\ [](\A c \in Calls : Executes(c) => C3_Shape(c))
  /\ [][\A c \in Calls : Executes(c) => C3_TerminalStays(c)]_vars

C3_Witness ==
  \E c \in Calls :
    /\ Executes(c) /\ Terminal(c)
    /\ Len(Gets(c)) = 2
    /\ Len(Posts(c)) = 2

\* C4 (as claimed): an execute call whose first GET is answered by a non-2xx
\* status other than 401 fails with the request error carrying that status
\* and makes no call to the authentication endpoint, whatever the token
\* state was when it started.
C4_FirstFails(c) ==
  /\ Executes(c)
  /\ Resps(c) # <<>>
  /\ ~ok(Resps(c)[1].status)
  /\ Resps(c)[1].status # Unauthorized

C4_NoAuthCallAtAll ==
  \A c \in Calls :
    C4_FirstFails(c) =>
      /\ pc[c] = "failed"
      /\ result[c] = Error("request", Resps(c)[1].status)
      /\ Posts(c) = <<>>

\* C4 (amended): such a call fails with the request error carrying that
\* status and nothing follows the answer: no call to the authentication
\* endpoint (no refresh) and no second GET.  The call makes no call to the
\* authentication endpoint at all when it started with no token in memory
\* and a token in the file.
C4_NoRefreshOnOtherFailure ==
  \A c \in Calls :
    C4_FirstFails(c) =>
      /\ pc[c] = "failed"
      /\ result[c] = Error("request", Resps(c)[1].status)
      /\ AfterFirstResp(c) = <<>>
      /\ Len(Gets(c)) = 1
      /\ (~Truthy(pre[c].accessToken) /\ Truthy(loaded(pre[c].file))) => Posts(c) = <<>>

C4_Witness ==
  \E c \in Calls :
    /\ C4_FirstFails(c) /\ Resps(c)[1].status = 404
    /\ Truthy(loaded(pre[c].file)) /\ Posts(c) = <<>>

\* C5 (as claimed): when the client holds a token in memory,
\* ensureValidToken returns that token, makes no call to the authentication
\* endpoint and leaves the token in memory and the file as they were.
C5_InMemoryTokenReturned ==
  \A c \in Calls :
    (Ensures(c) /\ Truthy(pre[c].accessToken)) =>
      /\ Posts(c) = <<>>
      /\ accessToken = pre[c].accessToken
      /\ file = pre[c].file
      /\ pc[c] = "done"
      /\ result[c].tok = pre[c].accessToken

\* C6 (as claimed): two consecutive ensureValidToken calls on one client
\* make at most one call to the authentication endpoint in total, from
\* every initial token state.
C6_TwoEnsuresOneAuthCall ==
  (Len(calls) <= 2 /\ \A i \in 1..Len(calls) : calls[i] = "ensure") => authCalls <= 1

\* C7 (as claimed): in a sequence of execute calls on one client in which
\* the resource server never answers 401, the authentication endpoint is
\* called at most once.
C7_RefreshOnlyOn401 ==
  ((\A i \in 1..Len(calls) : calls[i] = "execute") /\ ~got401) => authCalls <= 1

\* C8: cold start: with no token in memory and no token file, a successful
\* ensureValidToken calls the authentication endpoint exactly once, saves
\* the token obtained to the file, stores it in memory and returns it.
C8_ColdStart ==
  \A c \in Calls :
    (/\ Ensures(c) /\ pc[c] = "done"
     /\ pre[c].accessToken = Absent /\ pre[c].file = Absent) =>
      /\ Len(Posts(c)) = 1
      /\ Len(AuthResps(c)) = 1
      /\ Truthy(result[c].tok)
      /\ result[c].tok = AuthResps(c)[1].tok
      /\ accessToken = result[c].tok
      /\ file = result[c].tok

C8_Witness ==
  \E c \in Calls :
    /\ Ensures(c) /\ pc[c] = "done"
    /\ pre[c].accessToken = Absent /\ pre[c].file = Absent
    /\ file = result[c].tok

\* C9 (as claimed): warm start: with no token in memory and a non-empty
\* token file, ensureValidToken adopts the value of the file into memory and
\* returns it without any call to the authentication endpoint, also when
\* the credentials are missing.
C9_WarmStartAnyNonEmptyFile ==
  \A c \in Calls :
    (/\ Ensures(c)
     /\ pre[c].accessToken = Absent
     /\ pre[c].file # Absent /\ Len(pre[c].file) > 0) =>
      /\ pc[c] = "done"
      /\ Posts(c) = <<>>
      /\ result[c].tok = loaded(pre[c].file)
      /\ accessToken = loaded(pre[c].file)

\* C9 (amended): with no token in memory and a token file that is not empty
\* once surrounding whitespace is trimmed, ensureValidToken adopts the
\* trimmed value of the file into memory and returns it without any call to
\* the authentication endpoint, also when the credentials are missing; the
\* file is left as it was.
C9_WarmStart ==
  \A c \in Calls :
    (/\ Ensures(c)
     /\ pre[c].accessToken = Absent
     /\ pre[c].file # Absent /\ trim(pre[c].file) # <<>>) =>
      /\ pc[c] = "done"
      /\ log[c] = <<>>
      /\ result[c] = Value("", trim(pre[c].file))
      /\ accessToken = trim(pre[c].file)
      /\ file = pre[c].file

C9_Witness ==
  \E c \in Calls :
    /\ Ensures(c) /\ pc[c] = "done"
    /\ pre[c].accessToken = Absent
    /\ pre[c].file = <<1, WS>>
    /\ clientId = "" /\ clientSecret = ""

\* C10 (as claimed): after every token operation (ensureValidToken,
\* refreshToken) has completed, successfully or not, the token of the file
\* equals the token in memory, or both are absent.
Mirror ==
  IF Truthy(accessToken)
  THEN loadTokenFromFile = accessToken
  ELSE ~Truthy(loadTokenFromFile)

C10_MirrorAfterTokenOperation ==
  \A c \in Calls :
    pc[c] \in {"ensured", "request", "refreshed", "retry", "done", "failed"} => Mirror


\* the refresh that followed the 401 of the call's first GET did not return a
\* token: a credential is missing, or the authentication server's answer
\* was a failure
RefreshFails(c) ==
  /\ Executes(c)
  /\ Resps(c) # <<>>
  /\ Resps(c)[1].status = Unauthorized
  /\ \/ ~HasCredentials
     \/ \E i \in 1..Len(AfterFirstResp(c)) :
          /\ AfterFirstResp(c)[i].ev = "AUTHRESP"
          /\ ~ok(AfterFirstResp(c)[i].status) \/ AfterFirstResp(c)[i].tok = Absent

\* C11 (as claimed): refreshToken discards the cached token from memory and
\* from the file before it acquires a new one: while the refresh waits for
\* the authentication server neither holds the old token, and when the
\* acquisition fails both are left absent.
C11_RefreshDiscardsCachedToken ==
  \A c \in Calls :
    /\ pc[c] = "refreshFetch" =>
         /\ accessToken # token[c]
         /\ loadTokenFromFile # token[c]
    /\ RefreshFails(c) =>
         /\ ~Truthy(accessToken)
         /\ file = Absent

\* C12: a token that was answered 401 and invalidated by refreshToken is
\* never sent again as the bearer of a later GET, by this client (also after
\* a refresh that failed) or by a client constructed after a restart.
SendsGet(c) ==
  /\ Len(log'[c]) = Len(log[c]) + 1
  /\ log'[c][Len(log'[c])].ev = "GET"

C12_InvalidatedNeverSentAgain ==
  [][\A c \in Calls :
       SendsGet(c) => log'[c][Len(log'[c])].tok \notin invalidated]_vars

C12_Witness ==
  \E c \in Calls :
    /\ pc[c] = "request" /\ Resps(c) = <<>>
    /\ Len(calls) >= 2
    /\ pre[c].accessToken \in invalidated
    /\ Gets(c)[1].tok \notin invalidated

\* C13: refreshToken clears the file before it calls the authentication
\* endpoint and before it saves the new token: from the start of the refresh
\* on, what a restart would load from the file is nothing or the new token,
\* never the token that was answered 401.
C13_ClearBeforeSave ==
  \A c \in Calls :
    (Executes(c) /\ Resps(c) # <<>> /\ Resps(c)[1].status = Unauthorized) =>
      /\ loadTokenFromFile # Gets(c)[1].tok
      /\ pc[c] = "refreshFetch" => file = Absent
      /\ file # Absent =>
           /\ Sel(AfterFirstResp(c), "AUTHRESP") # <<>>
           /\ file = Sel(AfterFirstResp(c), "AUTHRESP")[1].tok

C13_Witness ==
  \E c \in Calls :
    /\ pc[c] = "refreshFetch"
    /\ pre[c].file = <<1>> /\ token[c] = <<1>>
    /\ file = Absent


\* C14 (as claimed): missing credentials are detected lazily.  Constructing
\* a client without them does not fail; the configuration error is raised
\* only by an operation that has to fetch a token (nothing in memory and
\* nothing to load, or a refresh after a 401), before any call to the
\* authentication endpoint, and it leaves the token in memory and the file
\* as the failing token operation found them (ensureValidToken: as they were
\* when the call started; refreshToken: the token in memory as
\* ensureValidToken returned it, the file already cleared).
C14_HadToFetch(c) ==
  \/ Resps(c) # <<>>
  \/ ~Truthy(pre[c].accessToken) /\ ~Truthy(loaded(pre[c].file))

C14_LazyCredentials ==
  \A c \in Calls :
    (pc[c] = "failed" /\ result[c].error = "credentials") =>
      /\ Posts(c) = <<>>
      /\ C14_HadToFetch(c)
      /\ Resps(c) = <<>> => accessToken = pre[c].accessToken /\ file = pre[c].file
      /\ Resps(c) # <<>> => accessToken = token[c]

\* the authentication server's answer to the POST of ensureValidToken is a
\* failure: a non-2xx status or a body that does not parse
EnsureFetchFails(c) ==
  /\ kind[c] # "none"
  /\ AuthResps(c) # <<>>
  /\ log[c][2].ev = "AUTHRESP"
  /\ ~ok(log[c][2].status) \/ log[c][2].tok = Absent

\* C15: when the authentication endpoint answers non-2xx, or with a body
\* that does not parse, during ensureValidToken, the operation fails with the
\* token error after exactly one call to the authentication endpoint, no GET
\* is sent, and the token in memory and the file are as before the call.
C15_AuthFailureStoresNothing ==
  \A c \in Calls :
    EnsureFetchFails(c) =>
      /\ pc[c] = "failed"
      /\ result[c] = IF ok(log[c][2].status) THEN Error("json", 0)
                     ELSE Error("token", log[c][2].status)
      /\ Len(log[c]) = 2
      /\ Len(Posts(c)) = 1
      /\ Gets(c) = <<>>
      /\ accessToken = pre[c].accessToken
      /\ file = pre[c].file

C15_Witness ==
  \E c \in Calls :
    /\ Executes(c) /\ EnsureFetchFails(c)
    /\ result[c].error = "token"
    /\ Truthy(pre[c].accessToken) /\ Truthy(pre[c].file)

\* C16: when the refresh that a 401 triggers fails (a credential is missing,
\* or the authentication server's answer is a failure), the execute call
\* fails with that error and sends no retry: it has sent exactly one GET.
C16_RefreshCannotStart(c) ==
  /\ Executes(c)
  /\ Resps(c) # <<>>
  /\ Resps(c)[1].status = Unauthorized
  /\ clientId = "" \/ clientSecret = ""

C16_FailedRefreshNoRetry ==
  \A c \in Calls :
    /\ C16_RefreshCannotStart(c) =>
         /\ pc[c] = "failed"
         /\ result[c] = Error("credentials", 0)
         /\ Len(Gets(c)) = 1
    /\ (RefreshFails(c) /\ ~C16_RefreshCannotStart(c)) =>
         /\ pc[c] = "failed"
         /\ result[c] = IF ok(log[c][Len(log[c])].status) THEN Error("json", 0)
                        ELSE Error("token", log[c][Len(log[c])].status)
         /\ log[c][Len(log[c])].ev = "AUTHRESP"
         /\ Len(Gets(c)) = 1

C16_Witness ==
  \E c \in Calls :
    /\ RefreshFails(c) /\ result[c].error = "token" /\ Len(Posts(c)) = 2

\* C17: when the retry is answered by a non-2xx status s, the execute call
\* fails with the request error carrying s, the status of the retry's
\* answer, not the 401 of the first answer.
C17_RetryErrorCarriesFinalStatus ==
  \A c \in Calls :
    (Executes(c) /\ Len(Resps(c)) = 2 /\ ~ok(Resps(c)[2].status)) =>
      /\ pc[c] = "failed"
      /\ result[c] = Error("afterRefresh", Resps(c)[2].status)

C17_Witness ==
  \E c \in Calls :
    /\ Executes(c) /\ pc[c] = "failed"
    /\ RespStatuses(c) = <<401, 429>>
    /\ result[c].status = 429

\* C18: on a new client with credentials and no token stored, an endpoint
\* call whose GET is answered 2xx returns the body of the answer, after
\* exactly one call to the authentication endpoint, which precedes the only
\* GET; no GET is sent before a token has been obtained.
C18_Fresh(c) ==
  /\ Executes(c)
  /\ pre[c].accessToken = Absent
  /\ pre[c].file \in {Absent, <<>>}
  /\ clientId # "" /\ clientSecret # ""

C18_EndToEnd ==
  \A c \in Calls :
    C18_Fresh(c) =>
      /\ Gets(c) # <<>> =>
           /\ Len(log[c]) >= 3
           /\ log[c][1].ev = "POST"
           /\ log[c][2].ev = "AUTHRESP" /\ ok(log[c][2].status)
           /\ log[c][3].ev = "GET"
           /\ Truthy(log[c][3].tok) /\ log[c][3].tok = log[c][2].tok
      /\ (Resps(c) # <<>> /\ ok(Resps(c)[1].status)) =>
           /\ pc[c] = "done"
           /\ result[c] = Value(Resps(c)[1].body, Absent)
           /\ Len(log[c]) = 4
           /\ Len(Posts(c)) = 1 /\ Len(Gets(c)) = 1

C18_Witness ==
  \E c \in Calls :
    /\ C18_Fresh(c) /\ pc[c] = "done"
    /\ result[c].body = "b2"
    /\ calls = <<"execute">>

\* C19 (as claimed): one execute call makes at most two network round trips
\* in total, POSTs to the authentication endpoint and GETs counted together.
C19_AtMostTwoRoundTrips ==
  \A c \in Calls :
    Executes(c) => Len(Posts(c)) + Len(Gets(c)) <= 2

\* C19 (amended): one execute call makes at most four network round trips:
\* at most two POSTs to the authentication endpoint (one by ensureValidToken,
\* one by refreshToken) and at most two GETs (the request and its one retry).
C19_AtMostFourRoundTrips ==
  \A c \in Calls :
    Executes(c) =>
      /\ Len(Posts(c)) <= 2
      /\ Len(Gets(c)) <= 2
      /\ Len(Posts(c)) + Len(Gets(c)) <= 4

C19_Witness ==
  \E c \in Calls :
    /\ Executes(c) /\ Terminal(c)
    /\ Len(Posts(c)) + Len(Gets(c)) = 4


\* the token the call's refresh obtained, Absent when it obtained none
RefreshedToken(c) ==
  LET a == Sel(AfterFirstResp(c), "AUTHRESP")
  IN IF a = <<>> THEN Absent ELSE a[1].tok

\* the call has completed, its first GET was answered 401 and its refresh
\* obtained a token
C20_Refreshed(c) ==
  /\ Executes(c) /\ Terminal(c)
  /\ Resps(c) # <<>> /\ Resps(c)[1].status = Unauthorized
  /\ Truthy(RefreshedToken(c))

\* C20: for every interleaving of two concurrent execute calls on one client
\* that are both answered 401 and both refresh successfully: when both have
\* completed, one token is cached: the token in memory and the file are
\* present and equal, and the token is one that the refreshes obtained.
C20_OneTokenCached ==
  (\A c \in Pair : C20_Refreshed(c)) =>
    /\ Truthy(accessToken)
    /\ file = accessToken
    /\ \E c \in Pair : accessToken = RefreshedToken(c)

\* both calls were in progress at the same time: each had sent its first GET
\* before the other's refresh obtained its token
C20_Witness ==
  /\ \A c \in Pair : C20_Refreshed(c)
  /\ Gets(1)[1].tok[1] < RefreshedToken(2)[1]
  /\ Gets(2)[1].tok[1] < RefreshedToken(1)[1]
  /\ RefreshedToken(2)[1] < RefreshedToken(1)[1]
  /\ accessToken = RefreshedToken(1)


\* the last network event of the call
LastEvent(c) == log[c][Len(log[c])]

\* something failed in the call: an acquisition of a token (a failure answer
\* of the authentication server), the first request (a non-2xx answer other
\* than 401), or the retry (a non-2xx answer)
C21_SomethingFailed(c) ==
  \/ \E i \in 1..Len(log[c]) :
       /\ log[c][i].ev = "AUTHRESP"
       /\ ~ok(log[c][i].status) \/ log[c][i].tok = Absent
  \/ /\ Resps(c) # <<>>
     /\ ~ok(Resps(c)[1].status) /\ Resps(c)[1].status # Unauthorized
  \/ /\ Len(Resps(c)) = 2
     /\ ~ok(Resps(c)[2].status)

\* C21: no failure is swallowed.  An execute call returns a value only when
\* the last answer it received is a 2xx answer of the resource server; every
\* other outcome (a failed token fetch, a missing credential, a non-2xx
\* answer, a failed refresh, a failed retry) completes the call with an
\* error.
C21_NoFailureSwallowed ==
  \A c \in Calls :
    Executes(c) =>
      /\ result[c].outcome = "value" =>
           /\ pc[c] = "done"
           /\ log[c] # <<>>
           /\ LastEvent(c).ev = "RESP" /\ ok(LastEvent(c).status)
           /\ result[c].body = LastEvent(c).body
      /\ C21_SomethingFailed(c) =>
           pc[c] = "failed" /\ result[c].outcome = "error"
      /\ (Terminal(c) /\ (log[c] = <<>> \/ LastEvent(c).ev # "RESP"
                          \/ ~ok(LastEvent(c).status))) =>
           pc[c] = "failed" /\ result[c].outcome = "error" /\ result[c].error # ""
      /\ pc[c] = "failed" <=> result[c].outcome = "error"
      /\ pc[c] = "done" <=> result[c].outcome = "value"

C21_Witness ==
  \E c \in Calls :
    /\ Executes(c) /\ pc[c] = "failed"
    /\ Len(Resps(c)) = 1 /\ Resps(c)[1].status = 500
    /\ result[c] = Error("request", 500)
    /\ calls = <<"execute", "execute">>

\* C22 (as claimed): the error of a failed call identifies the HTTP status
\* and the phase.  A call that an answer made fail (not a missing
\* credential) carries an error that names the phase of that answer (token
\* fetch, first request, request after the refresh) and its status.
C22_ErrorIdentifiesStatusAndPhase ==
  \A c \in Calls :
    (pc[c] = "failed" /\ result[c].error # "credentials") =>
      /\ log[c] # <<>>
      /\ LastEvent(c).ev \in {"AUTHRESP", "RESP"}
      /\ result[c].status = LastEvent(c).status
      /\ result[c].error =
           IF LastEvent(c).ev = "AUTHRESP" THEN "token"
           ELSE IF Len(Resps(c)) = 1 THEN "request" ELSE "afterRefresh"


\* the tokens fetched from the authentication server so far (by this client
\* instance or one before it); a token is saved as soon as it is fetched
Fetched == {<<n>> : n \in 2..issued}

\* the call is the first one on a newly constructed client, and the file
\* holds a token that an earlier instance fetched and saved (a later 401
\* would have deleted the file)
C23_AfterRestart(c) ==
  /\ calls = <<kind[c]>>
  /\ pre[c].accessToken = Absent
  /\ pre[c].file \in Fetched

\* C23: the token survives a restart of the process.  After a client
\* instance has fetched and saved a token, and no invalidation followed,
\* ensureValidToken on a newly constructed client returns that token without
\* a call to the authentication endpoint.
C23_TokenSurvivesRestart ==
  \A c \in Calls :
    (Ensures(c) /\ C23_AfterRestart(c)) =>
      /\ pc[c] = "done"
      /\ result[c] = Value("", pre[c].file)
      /\ log[c] = <<>>
      /\ authCalls = 0
      /\ accessToken = pre[c].file
      /\ file = pre[c].file

C23_Witness ==
  \E c \in Calls :
    /\ Ensures(c) /\ C23_AfterRestart(c)
    /\ pc[c] = "done"
    /\ clientId = "" /\ clientSecret = ""


\* C24 (as claimed): saveTokenToFile(v) followed by loadTokenFromFile, with
\* no clear in between, returns v; clearTokenFile followed by
\* loadTokenFromFile returns absent; clearTokenFile on a file that does not
\* exist changes nothing and does not fail.
C24_SaveLoadReturnsSaved ==
  /\ (store.name = "load" /\ store.prev.name = "save") => store.ret = store.prev.arg
  /\ (store.name = "load" /\ store.prev.name = "clear") => store.ret = Absent
  /\ (store.name = "clear" /\ store.before = Absent) => file = Absent /\ ~store.threw

\* C24 (amended): saveTokenToFile(v) followed by loadTokenFromFile returns v
\* without its leading and trailing whitespace, and absent when v is empty:
\* it returns v when v is non-empty and has no whitespace at either end.
\* clearTokenFile followed by loadTokenFromFile returns absent, and
\* clearTokenFile on a file that does not exist changes nothing and does not
\* fail.
C24_SaveLoadReturnsTrimmed ==
  /\ (store.name = "load" /\ store.prev.name = "save") =>
       /\ store.ret = IF store.prev.arg = <<>> THEN Absent ELSE trim(store.prev.arg)
       /\ (Truthy(store.prev.arg) /\ trim(store.prev.arg) = store.prev.arg) =>
            store.ret = store.prev.arg
  /\ (store.name = "load" /\ store.prev.name = "clear") => store.ret = Absent
  /\ (store.name = "clear") => file = Absent /\ ~store.threw
  /\ (store.name = "clear" /\ store.before = Absent) => file = store.before

C24_Witness ==
  /\ store.name = "load" /\ store.prev.name = "save"
  /\ store.prev.arg = <<1, 2>> /\ store.ret = <<1, 2>>


\* the call is in progress: made, and neither returned nor failed yet
InProgress(c) == pc[c] \notin {"idle", "done", "failed"}

\* no call is in progress
Quiet == \A c \in Calls : ~InProgress(c)

\* C25: every execute call terminates.  Provided every network call gets an
\* answer, a call in progress eventually returns a value or raises an error;
\* and once no call is in progress nothing goes on: until a caller makes a
\* call or a new client is constructed, the token in memory, the file and
\* the count of calls to the authentication endpoint do not change.
C25_EveryCallTerminates ==
  /\ \A c \in Calls : InProgress(c) ~> Terminal(c)
  /\ [][(Quiet /\ calls' = calls) =>
          UNCHANGED <<accessToken, file, issued, authCalls>>]_vars

C25_Witness ==
  \E c \in Calls :
    /\ Executes(c) /\ pc[c] = "done"
    /\ Len(log[c]) = 8


\* the token the call's ensureValidToken returned: the one it fetched when
\* the call began with a POST, else the one it loaded from the file
EnsuredToken(c) ==
  IF log[c][1].ev = "POST" THEN log[c][2].tok ELSE loaded(pre[c].file)

\* C26: the first GET of an execute call carries the token that the call's
\* ensureValidToken returned; the retry goes to the same url and carries the
\* token that the call's refreshToken returned, never the token that was
\* answered 401.
C26_BearerOfEachGet ==
  \A c \in Calls :
    Executes(c) =>
      /\ Gets(c) # <<>> =>
           /\ Gets(c)[1].tok = EnsuredToken(c)
           /\ Gets(c)[1].url = url[c] /\ url[c] \in Urls
      /\ Len(Gets(c)) = 2 =>
           /\ Resps(c)[1].status = Unauthorized
           /\ Gets(c)[2].url = Gets(c)[1].url
           /\ Gets(c)[2].tok = RefreshedToken(c)
           /\ Truthy(Gets(c)[2].tok)
           /\ Gets(c)[2].tok # Gets(c)[1].tok
      /\ Len(Gets(c)) <= 2

C26_Witness ==
  \E c \in Calls :
    /\ Executes(c) /\ Len(Gets(c)) = 2
    /\ Gets(c)[1].tok = <<1>> /\ pre[c].file = <<1, WS>>
    /\ Gets(c)[2].tok = <<2>>
    /\ Gets(c)[2].url = "/flights/all"


\* the step consumes an answer of the resource server to call c
Answers(c) ==
  /\ pc[c] \in {"request", "retry"}
  /\ Len(Resps(c)') = Len(Resps(c)) + 1

\* the status of the answer that the step consumes
AnswerStatus(c) == log'[c][Len(log[c]) + 1].status

\* C27: only the token operations change the token.  Receiving an answer of
\* the resource server that is not a 401 to the first GET (a 2xx, a 404, a
\* 429, a 5xx, or any answer to the retry) leaves the token in memory and
\* the file as they were, and makes no call to the authentication endpoint:
\* after such an answer to the first GET they are as ensureValidToken left
\* them.
C27_OnlyTokenOperationsMutate ==
  [][\A c \in Calls :
       (Answers(c) /\ ~(pc[c] = "request" /\ AnswerStatus(c) = Unauthorized)) =>
         /\ UNCHANGED <<accessToken, file, authCalls, issued>>
         /\ Terminal(c)'
         /\ Posts(c)' = Posts(c)]_vars

C27_Witness ==
  \E c \in Calls :
    /\ Executes(c) /\ pc[c] = "failed"
    /\ RespStatuses(c) = <<429>>
    /\ accessToken = Gets(c)[1].tok /\ file = accessToken
    /\ Len(Posts(c)) = 1


\* the POSTs the call has sent after the answer to its first GET
RefreshPosts(c) == Sel(AfterFirstResp(c), "POST")

\* C28: concurrent refreshes are not deduplicated.  Each of the concurrent
\* execute calls that is answered 401 makes its own clear, its own POST to
\* the authentication endpoint and its own save: the step that consumes the
\* 401 deletes the file and sends a POST, whatever other calls have done,
\* and the step that consumes the answer to that POST writes the token of
\* that answer to memory and file.  Two calls that refresh make two POSTs
\* and obtain and save two different tokens.
C28_NoDeduplication ==
  /\ [](\A c \in Calls :
          (Executes(c) /\ Resps(c) # <<>> /\ Resps(c)[1].status = Unauthorized
           /\ HasCredentials) => Len(RefreshPosts(c)) = 1)
  /\ []((\A c \in Pair : Truthy(RefreshedToken(c))) =>
          /\ RefreshedToken(1) # RefreshedToken(2)
          /\ authCalls >= 2 /\ issued >= 3)
  /\ [][\A c \in Calls :
          /\ (pc[c] = "request" /\ Answers(c) /\ AnswerStatus(c) = Unauthorized) =>
               /\ file' = Absent
               /\ HasCredentials => authCalls' = authCalls + 1
          /\ (pc[c] = "refreshFetch" /\ pc'[c] = "refreshed") =>
               /\ RefreshedToken(c)' = <<issued'>> /\ issued' = issued + 1
               /\ file' = RefreshedToken(c)'
               /\ accessToken' = RefreshedToken(c)']_vars

\* the second call is refreshing after the first has finished its refresh:
\* it has deleted the file that held the first call's new token
C28_Witness ==
  /\ \A c \in Pair : Executes(c)
  /\ Truthy(RefreshedToken(1)) /\ accessToken = RefreshedToken(1)
  /\ pc[2] = "refreshFetch" /\ Len(RefreshPosts(2)) = 1
  /\ file = Absent


\* a token file that holds no token: missing, empty, or whitespace only
Blank(f) == f = Absent \/ f = <<>> \/ trim(f) = <<>>

\* the call began with no token in memory and a file that is empty or
\* whitespace only
C29_EmptyRecord(c) ==
  /\ kind[c] # "none"
  /\ pre[c].accessToken = Absent
  /\ pre[c].file # Absent /\ Blank(pre[c].file)

\* C29: an empty token file is treated as a missing one.  loadTokenFromFile
\* returns absent when the file is missing or empty, and ensureValidToken on
\* a client with no token in memory and an empty or whitespace-only file
\* does what it does on a cold start: it goes to the authentication endpoint
\* (failing before the POST when a credential is missing), and when a token
\* is obtained it is stored in memory, saved to the file and returned.
C29_EmptyRecordIsAbsent ==
  /\ (file = Absent \/ file = <<>>) => loadTokenFromFile = Absent
  /\ \A c \in Calls :
       C29_EmptyRecord(c) =>
         /\ ~HasCredentials => pc[c] = "failed" /\ result[c] = Error("credentials", 0)
                               /\ log[c] = <<>> /\ file = pre[c].file
         /\ HasCredentials => log[c] # <<>> /\ log[c][1].ev = "POST"
         /\ pc[c] = "ensureFetch" => accessToken = Absent /\ file = pre[c].file
         /\ (Ensures(c) /\ pc[c] = "done") =>
              /\ Len(Posts(c)) = 1
              /\ Len(AuthResps(c)) = 1
              /\ Truthy(result[c].tok)
              /\ result[c].tok = AuthResps(c)[1].tok
              /\ accessToken = result[c].tok
              /\ file = result[c].tok
         /\ (Executes(c) /\ Gets(c) # <<>>) =>
              /\ Truthy(Gets(c)[1].tok)
              /\ Gets(c)[1].tok = log[c][2].tok

C29_Witness ==
  \E c \in Calls :
    /\ Ensures(c) /\ pc[c] = "done"
    /\ pre[c].accessToken = Absent /\ pre[c].file = <<WS>>
    /\ file = result[c].tok


\* C30: saving is idempotent.  saveTokenToFile(v) made twice in a row leaves
\* the file as one save leaves it: one record, v, whose load returns what it
\* returns after one save (v, when v is a token: non-empty, no whitespace
\* at either end); and a save overwrites the whole of what the file held.
C30_SaveIdempotent ==
  /\ store.name = "save" => file = store.arg
  /\ (store.name = "save" /\ store.prev.name = "save"
      /\ store.prev.arg = store.arg) =>
       /\ file = store.before
       /\ loadTokenFromFile = loaded(store.before)
       /\ (Truthy(store.arg) /\ trim(store.arg) = store.arg) =>
            loadTokenFromFile = store.arg

C30_Witness ==
  /\ store.name = "save" /\ store.prev.name = "save"
  /\ store.arg = <<1, 2>> /\ store.prev.arg = <<1, 2>>
  /\ file = <<1, 2>>


\* C32: under every interleaving of concurrent token operations on one
\* client, in every reachable state (those at the await points included):
\* when a token is in memory and the file holds a token, they are the same
\* token.
C32_MemoryAndFileAgree ==
  (Truthy(accessToken) /\ Truthy(loadTokenFromFile)) =>
    accessToken = loadTokenFromFile

\* one call waits for its refresh (it has deleted the file) while memory and
\* file hold the token that the other call has saved since
C32_Witness ==
  /\ pc[1] = "refreshFetch" /\ InProgress(2)
  /\ Truthy(accessToken) /\ file = accessToken
  /\ accessToken # token[1] /\ accessToken # <<1>>

\* C33: under every interleaving of concurrent execute calls on one client,
\* the retry of a call carries the token that the call's own POST obtained,
\* also when another call's refresh has replaced the token in memory and in
\* the file in the meantime.
C33_RetryUsesOwnToken ==
  \A c \in Calls :
    (Executes(c) /\ Len(Gets(c)) = 2) =>
      /\ Truthy(RefreshedToken(c))
      /\ Gets(c)[2].tok = RefreshedToken(c)

\* the retry has just been sent, with the call's own token, while memory and
\* file hold the token of the other call's refresh
C33_Witness ==
  \E c, d \in Pair :
    /\ c # d
    /\ pc[c] = "retry" /\ Len(Gets(c)) = 2
    /\ Gets(c)[2].tok = RefreshedToken(c)
    /\ accessToken = RefreshedToken(d) /\ file = RefreshedToken(d)
    /\ accessToken # RefreshedToken(c)


\* the token was loaded from the token file as it was when the process
\* started
FromInitialFile(t) == \E f \in InitFiles : Truthy(loaded(f)) /\ t = loaded(f)

Calling(c) == pc[c] = "idle" /\ pc'[c] # "idle"

\* the step is an endpoint method returning to its caller
Returning(c) == Terminal(c) /\ pc'[c] = "idle"

\* C31: every endpoint method makes exactly one execute call, keeps no
\* state of its own, and its outcome is the outcome of that execute call.
\* Calling a method starts one makeAuthenticatedRequest, with the url of the
\* method, and no other is started before it returns; every GET of the call
\* goes to that url; the value or the error the caller gets is the one that
\* makeAuthenticatedRequest returned or threw; and the return leaves nothing
\* of the call behind and changes neither the token in memory nor the file.
C31_EndpointIsOneExecute ==
  [][\A c \in Calls :
       /\ Calling(c) =>
            /\ calls' = Append(calls, "execute")
            /\ Executes(c)'
            /\ \E m \in Methods : url'[c] = UrlOf(m)
       /\ (~Calling(c) /\ pc'[c] # "idle") =>
            /\ calls' = calls
            /\ url'[c] = url[c]
            /\ \A i \in 1..Len(Gets(c)') : Gets(c)'[i].url = url[c]
       /\ Returning(c) =>
            /\ result[c].outcome \in {"value", "error"}
            /\ outcome'[c] = result[c]
            /\ url'[c] = "" /\ token'[c] = Absent /\ log'[c] = <<>>
            /\ UNCHANGED <<accessToken, file, authCalls, issued, calls>>]_vars

C31_Witness ==
  \E c \in Calls :
    /\ pc[c] = "idle"
    /\ outcome[c] = Error("afterRefresh", 429)
    /\ \E d \in Calls : url[d] = "/tracks" /\ pc[d] = "done"
                        /\ result[d] = Value("b2", Absent)


Legacy(c) == kind[c] = "legacy"

\* C35: getArrivalByAirport and getDepartureByAirport send exactly one GET,
\* with the token of the caller; any non-2xx answer, 401 included, makes
\* them fail with the status of the answer, with no refresh and no retry;
\* and they leave the token file as it is.
C35_LegacyRequestsAreBare ==
  \A c \in Calls :
    Legacy(c) =>
      /\ Len(Gets(c)) = 1
      /\ Gets(c)[1].tok = token[c] /\ Gets(c)[1].url = url[c]
      /\ log[c][1].ev = "GET"
      /\ Posts(c) = <<>>
      /\ Len(Resps(c)) <= 1
      /\ Resps(c) # <<>> =>
           /\ Len(log[c]) = 2
           /\ ok(Resps(c)[1].status) =>
                pc[c] = "done" /\ result[c] = Value(Resps(c)[1].body, Absent)
           /\ ~ok(Resps(c)[1].status) =>
                pc[c] = "failed" /\ result[c] = Error("legacy", Resps(c)[1].status)
      /\ file = pre[c].file
      /\ accessToken = pre[c].accessToken

C35_Witness ==
  \E c \in Calls :
    /\ Legacy(c) /\ pc[c] = "failed"
    /\ result[c] = Error("legacy", Unauthorized)
    /\ token[c] = <<1>> /\ file = <<1>>


\* the file holds something when the call begins
C36_RecordNotEmpty(c) == pre[c].file # Absent /\ pre[c].file # <<>>

\* C36 (as claimed): getAccessToken returns the token of the file without a
\* call to the authentication endpoint when the file is not empty; else it
\* makes exactly one such call and saves the result; so repeated calls of
\* getAccessToken make at most one call to the authentication endpoint in
\* all.
C36_AtMostOneAuthCall ==
  /\ posted <= 1
  /\ \A c \in Calls :
       (Ensures(c) /\ C36_RecordNotEmpty(c)) =>
         /\ Posts(c) = <<>>
         /\ pc[c] = "done" /\ result[c].tok = loaded(pre[c].file)

\* C36 (amended): getAccessToken is ensureValidToken on a new client.  When
\* the file holds a token (anything but whitespace) it returns that token
\* with no call to the authentication endpoint; else it makes one call, or
\* none when a credential is missing, and when the call succeeds the token
\* is saved and returned.  Repeated calls obtain at most one token in all:
\* once a token has been obtained, every later call returns it from the file.
C36_OneFetchThenCached ==
  /\ issued <= 2
  /\ issued = 2 => loadTokenFromFile = <<2>>
  /\ \A c \in Calls :
       Ensures(c) =>
         /\ pre[c].accessToken = Absent
         /\ calls = <<"ensure">>
         /\ Truthy(loaded(pre[c].file)) =>
              /\ pc[c] = "done"
              /\ result[c] = Value("", loaded(pre[c].file))
              /\ log[c] = <<>>
              /\ file = pre[c].file
         /\ ~Truthy(loaded(pre[c].file)) =>
              /\ Len(Posts(c)) = IF HasCredentials THEN 1 ELSE 0
              /\ ~HasCredentials => pc[c] = "failed" /\ file = pre[c].file
              /\ pc[c] = "done" =>
                   /\ Truthy(result[c].tok)
                   /\ result[c].tok = AuthResps(c)[1].tok
                   /\ file = result[c].tok
              /\ pc[c] = "failed" => file = pre[c].file

\* a second getAccessToken after one that fetched: it returns the token of
\* the file, and the one POST made so far is the first call's
C36_Witness ==
  \E c \in Calls :
    /\ Ensures(c) /\ pc[c] = "done"
    /\ issued = 2 /\ posted = 1
    /\ pre[c].file = <<2>> /\ result[c].tok = <<2>>
    /\ log[c] = <<>>

====
